---- MODULE Spec2Model ----
(***************************************************************************)
(* A model of src/src/lda/document.go: Document construction, the         *)
(* WordIterator cursor over a Document, and LoadCorpus.                    *)
(*                                                                         *)
(* Strings are sequences of byte codes (10 = '\n', 32 = ' ', 46 = '.',     *)
(* 65 = 'A', 97 = 'a', 98 = 'b').  Go slices are TLA+ sequences: the Go    *)
(* element s[i] is At(s, i) = s[i + 1].  A Go pointer is a sequence of     *)
(* length 0 (nil) or 1 (the pointee).                                      *)
(***************************************************************************)
EXTENDS Integers, Sequences, FiniteSets

VARIABLES text, num_topics, doc, err, iter, ret, walk, ncalls, pc,
          file, rd, l, is_prefix, rerr, corpus, lerr, lpc,
          docs, iters, wpc, warg, seen

docvars == <<text, num_topics, doc, err, iter, ret, walk, ncalls, pc>>
corpusvars == <<file, rd, l, is_prefix, rerr, corpus, lerr, lpc>>
stepvars == <<docs, iters, wpc, warg, seen>>
vars == <<text, num_topics, doc, err, iter, ret, walk, ncalls, pc,
          file, rd, l, is_prefix, rerr, corpus, lerr, lpc,
          docs, iters, wpc, warg, seen>>

---------------------------------------------------------------------------
(* Bounds of the model. *)

\* longest text handed to NewDocument in the document specification
MaxLen == 5
\* largest num_topics tried
MaxTopics == 2
\* most lines of a corpus file
MaxLines == 2
\* size of the bufio.Reader buffer (4096 in the library, scaled down)
BufSize == 20

\* bytes a text is made of: ' ', '.', 'A', 'b'
Alphabet == {32, 46, 65, 98}

---------------------------------------------------------------------------
(* Go slices and strings. *)

At(s, i) == s[i + 1]

Min(a, b) == IF a < b THEN a ELSE b

\* a < b for Go strings: byte-wise lexicographic order
RECURSIVE StrLess(_, _)
StrLess(a, b) ==
    IF b = <<>> THEN FALSE
    ELSE IF a = <<>> THEN TRUE
    ELSE IF Head(a) # Head(b) THEN Head(a) < Head(b)
    ELSE StrLess(Tail(a), Tail(b))

\* the bytes SymbolsRegexp matches:  ; . , ? ! " :
IsSymbol(c) == c \in {59, 46, 44, 63, 33, 34, 58}

RemoveTailingSymbols(word) == SelectSeq(word, LAMBDA c : ~IsSymbol(c))

\* strings.ToLower on ASCII
ToLower(s) == [i \in 1..Len(s) |-> IF s[i] \in 65..90 THEN s[i] + 32 ELSE s[i]]

\* unicode.IsSpace on ASCII
IsSpace(c) == c \in {9, 10, 11, 12, 13, 32}

\* strings.Fields: the maximal runs of non-space bytes, in order
RECURSIVE FieldsFrom(_, _, _, _)
FieldsFrom(s, i, cur, acc) ==
    IF i > Len(s) THEN (IF cur = <<>> THEN acc ELSE Append(acc, cur))
    ELSE IF IsSpace(s[i])
         THEN FieldsFrom(s, i + 1, <<>>,
                         IF cur = <<>> THEN acc ELSE Append(acc, cur))
         ELSE FieldsFrom(s, i + 1, Append(cur, s[i]), acc)

Fields(s) == FieldsFrom(s, 1, <<>>, <<>>)

\* insert w into the sorted sequence ws
RECURSIVE InsertSorted(_, _)
InsertSorted(w, ws) ==
    IF ws = <<>> THEN <<w>>
    ELSE IF StrLess(w, Head(ws)) THEN <<w>> \o ws
    ELSE <<Head(ws)>> \o InsertSorted(w, Tail(ws))

RECURSIVE SortFrom(_, _)
SortFrom(ws, acc) ==
    IF ws = <<>> THEN acc ELSE SortFrom(Tail(ws), InsertSorted(Head(ws), acc))

\* sort.Strings: ascending order
SortStringsUnsorted(ws) == ws

SortStrings(ws) == SortFrom(ws, <<>>)

---------------------------------------------------------------------------
(* Document. *)

\* make([]int, n)
Zeros(n) == [i \in 1..n |-> 0]

IsValidOffsetsPerWord(d) ==
    /\ Len(d.unique_words) >= 1
    /\ Len(d.wordtopics_indices) = Len(d.unique_words) + 1
    /\ Len(d.wordtopics) >= 2
    /\ Len(d.topic_histogram) >= 2

IsValid(d) ==
    /\ Len(d.unique_words) >= 1
    /\ Len(d.wordtopics_indices) = Len(d.wordtopics)
    /\ Len(d.wordtopics) >= 2
    /\ Len(d.topic_histogram) >= 2

Length(d) == Len(d.wordtopics)

\* the loop storing the offset after each token instead of the offset of
\* the first token of its word
RECURSIVE GroupWordsEndOffsets(_, _, _, _)
GroupWordsEndOffsets(words, i, prev_word, d) ==
    IF i >= Len(words) THEN d
    ELSE IF At(words, i) # prev_word
         THEN GroupWordsEndOffsets(words, i + 1, At(words, i),
                [d EXCEPT !.unique_words = Append(@, At(words, i)),
                          !.wordtopics_indices = Append(@, i + 1)])
         ELSE GroupWordsEndOffsets(words, i + 1, prev_word,
                [d EXCEPT !.wordtopics_indices = Append(@, i + 1)])

\* the loop of NewDocument over the sorted words, from Go index i on
RECURSIVE GroupWords(_, _, _, _)
GroupWords(words, i, prev_word, d) ==
    IF i >= Len(words) THEN d
    ELSE IF At(words, i) # prev_word
         THEN GroupWords(words, i + 1, At(words, i),
                [d EXCEPT !.unique_words = Append(@, At(words, i)),
                          !.wordtopics_indices = Append(@, i)])
         ELSE GroupWords(words, i + 1, prev_word,
                [d EXCEPT !.wordtopics_indices =
                              Append(@, At(@, Len(@) - 1))])

\* the sorted tokens of a text
Words(t) == SortStrings(Fields(ToLower(RemoveTailingSymbols(t))))

\* NewDocument that leaves topic_histogram[0] at 0
NewDocumentHistogramUnset(t, k) ==
    IF k <= 1 THEN [doc |-> <<>>, err |-> "num_topics must be >= 2"]
    ELSE LET words == Words(t) IN
         IF Len(words) <= 1
         THEN [doc |-> <<>>, err |-> "Document less than 2 words"]
         ELSE LET d0 == [unique_words |-> <<>>,
                         wordtopics_indices |-> <<>>,
                         wordtopics |-> Zeros(Len(words)),
                         topic_histogram |-> Zeros(k)]
                  d == GroupWords(words, 0, <<>>, d0)
              IN IF ~IsValid(d)
                 THEN [doc |-> <<>>, err |-> "Document is invalid"]
                 ELSE [doc |-> <<d>>, err |-> "nil"]

\* NewDocument(text, num_topics): doc is the returned pointer, err the error
NewDocument(t, k) ==
    IF k <= 1 THEN [doc |-> <<>>, err |-> "num_topics must be >= 2"]
    ELSE LET words == Words(t) IN
         IF Len(words) <= 1
         THEN [doc |-> <<>>, err |-> "Document less than 2 words"]
         ELSE LET d0 == [unique_words |-> <<>>,
                         wordtopics_indices |-> <<>>,
                         wordtopics |-> Zeros(Len(words)),
                         topic_histogram |->
                             [Zeros(k) EXCEPT ![1] = Len(words)]]
                  d == GroupWords(words, 0, <<>>, d0)
              IN IF ~IsValid(d)
                 THEN [doc |-> <<>>, err |-> "Document is invalid"]
                 ELSE [doc |-> <<d>>, err |-> "nil"]

---------------------------------------------------------------------------
(* WordIterator.  A cursor operation that panics reports panic = TRUE     *)
(* and whatever it had already written stays written.                      *)

\* NewWordIterator(d): iter is the returned pointer, err the error
NewWordIterator(d) ==
    IF d = <<>>
    THEN [iter |-> <<>>, err |-> "NewWordIterator with a nil *Document"]
    ELSE IF ~IsValid(d[1])
         THEN [iter |-> <<>>,
               err |-> "NewWordIterator with an invalid Document"]
         ELSE [iter |-> <<[unique_word_index |-> 0, word_topic_index |-> 0]>>,
               err |-> "nil"]

Done(it, d) ==
    IF it.unique_word_index > Len(d.unique_words)
    THEN [panic |-> TRUE, val |-> FALSE]
    ELSE [panic |-> FALSE,
          val |-> it.unique_word_index = Len(d.unique_words)]

\* Next without the Done() guard
NextUnguarded(it, d) ==
    LET moved == [it EXCEPT !.word_topic_index = @ + 1]
        bumped == [moved EXCEPT !.unique_word_index = @ + 1]
    IN IF moved.word_topic_index >= Len(d.wordtopics)
       THEN [panic |-> FALSE, iter |-> bumped]
       ELSE IF it.unique_word_index + 1 >= Len(d.wordtopics_indices)
            THEN [panic |-> TRUE, iter |-> moved]
            ELSE IF moved.word_topic_index >=
                        At(d.wordtopics_indices, it.unique_word_index + 1)
                 THEN [panic |-> FALSE, iter |-> bumped]
                 ELSE [panic |-> FALSE, iter |-> moved]

\* Next whose boundary test is > instead of >=
NextStrictBoundary(it, d) ==
    IF Done(it, d).panic \/ Done(it, d).val
    THEN [panic |-> TRUE, iter |-> it]
    ELSE LET moved == [it EXCEPT !.word_topic_index = @ + 1]
             bumped == [moved EXCEPT !.unique_word_index = @ + 1]
         IN IF moved.word_topic_index >= Len(d.wordtopics)
            THEN [panic |-> FALSE, iter |-> bumped]
            ELSE IF it.unique_word_index + 1 >= Len(d.wordtopics_indices)
                 THEN [panic |-> TRUE, iter |-> moved]
                 ELSE IF moved.word_topic_index >
                            At(d.wordtopics_indices, it.unique_word_index + 1)
                      THEN [panic |-> FALSE, iter |-> bumped]
                      ELSE [panic |-> FALSE, iter |-> moved]

\* Next without the test against len(wordtopics)
NextNoEndTest(it, d) ==
    IF Done(it, d).panic \/ Done(it, d).val
    THEN [panic |-> TRUE, iter |-> it]
    ELSE LET moved == [it EXCEPT !.word_topic_index = @ + 1]
             bumped == [moved EXCEPT !.unique_word_index = @ + 1]
         IN IF it.unique_word_index + 1 >= Len(d.wordtopics_indices)
            THEN [panic |-> TRUE, iter |-> moved]
            ELSE IF moved.word_topic_index >=
                       At(d.wordtopics_indices, it.unique_word_index + 1)
                 THEN [panic |-> FALSE, iter |-> bumped]
                 ELSE [panic |-> FALSE, iter |-> moved]

Next(it, d) ==
    IF Done(it, d).panic \/ Done(it, d).val
    THEN [panic |-> TRUE, iter |-> it]
    ELSE LET moved == [it EXCEPT !.word_topic_index = @ + 1]
             bumped == [moved EXCEPT !.unique_word_index = @ + 1]
         IN IF moved.word_topic_index >= Len(d.wordtopics)
            THEN [panic |-> FALSE, iter |-> bumped]
            \* wordtopics_indices[unique_word_index+1] out of range
            ELSE IF it.unique_word_index + 1 >= Len(d.wordtopics_indices)
                 THEN [panic |-> TRUE, iter |-> moved]
                 ELSE IF moved.word_topic_index >=
                            At(d.wordtopics_indices, it.unique_word_index + 1)
                      THEN [panic |-> FALSE, iter |-> bumped]
                      ELSE [panic |-> FALSE, iter |-> moved]

Topic(it, d) ==
    IF Done(it, d).panic \/ Done(it, d).val
    THEN [panic |-> TRUE, val |-> -1]
    ELSE IF it.word_topic_index >= Len(d.wordtopics)
         THEN [panic |-> TRUE, val |-> -1]
         ELSE [panic |-> FALSE, val |-> At(d.wordtopics, it.word_topic_index)]

\* SetTopic that only increments the new topic's count
SetTopicNoDecrement(it, d, new_topic) ==
    IF Done(it, d).panic \/ Done(it, d).val THEN [panic |-> TRUE, doc |-> d]
    ELSE IF new_topic < 0 THEN [panic |-> TRUE, doc |-> d]
    ELSE IF new_topic >= Len(d.topic_histogram)
         THEN [panic |-> TRUE, doc |-> d]
    ELSE IF Topic(it, d).panic THEN [panic |-> TRUE, doc |-> d]
    ELSE [panic |-> FALSE,
          doc |-> [d EXCEPT
                     !.topic_histogram[new_topic + 1] = @ + 1,
                     !.wordtopics[it.word_topic_index + 1] = new_topic]]

\* SetTopic without the upper range check: the decrement is done before
\* the increment indexes topic_histogram out of range
SetTopicNoUpperCheck(it, d, new_topic) ==
    IF Done(it, d).panic \/ Done(it, d).val THEN [panic |-> TRUE, doc |-> d]
    ELSE IF new_topic < 0 THEN [panic |-> TRUE, doc |-> d]
    ELSE IF Topic(it, d).panic THEN [panic |-> TRUE, doc |-> d]
    ELSE LET old_topic == Topic(it, d).val
             dec == [d EXCEPT !.topic_histogram[old_topic + 1] = @ - 1]
         IN IF new_topic >= Len(d.topic_histogram)
            THEN [panic |-> TRUE, doc |-> dec]
            ELSE [panic |-> FALSE,
                  doc |-> [dec EXCEPT
                     !.topic_histogram[new_topic + 1] = @ + 1,
                     !.wordtopics[it.word_topic_index + 1] = new_topic]]

\* SetTopic that stores the label one slot further on when there is one
SetTopicWrongSlot(it, d, new_topic) ==
    IF Done(it, d).panic \/ Done(it, d).val THEN [panic |-> TRUE, doc |-> d]
    ELSE IF new_topic < 0 THEN [panic |-> TRUE, doc |-> d]
    ELSE IF new_topic >= Len(d.topic_histogram)
         THEN [panic |-> TRUE, doc |-> d]
    ELSE IF Topic(it, d).panic THEN [panic |-> TRUE, doc |-> d]
    ELSE LET old_topic == Topic(it, d).val
             dec == [d EXCEPT !.topic_histogram[old_topic + 1] = @ - 1]
             inc == [dec EXCEPT !.topic_histogram[new_topic + 1] = @ + 1]
             slot == IF it.word_topic_index + 1 < Len(d.wordtopics)
                     THEN it.word_topic_index + 1 ELSE it.word_topic_index
         IN [panic |-> FALSE,
             doc |-> [inc EXCEPT !.wordtopics[slot + 1] = new_topic]]

\* SetTopic whose increment starts from the count read before the decrement
SetTopicStaleCount(it, d, new_topic) ==
    IF Done(it, d).panic \/ Done(it, d).val THEN [panic |-> TRUE, doc |-> d]
    ELSE IF new_topic < 0 THEN [panic |-> TRUE, doc |-> d]
    ELSE IF new_topic >= Len(d.topic_histogram)
         THEN [panic |-> TRUE, doc |-> d]
    ELSE IF Topic(it, d).panic THEN [panic |-> TRUE, doc |-> d]
    ELSE LET old_topic == Topic(it, d).val
             dec == [d EXCEPT !.topic_histogram[old_topic + 1] = @ - 1]
             inc == [dec EXCEPT !.topic_histogram[new_topic + 1] =
                                    d.topic_histogram[new_topic + 1] + 1]
         IN [panic |-> FALSE,
             doc |-> [inc EXCEPT
                        !.wordtopics[it.word_topic_index + 1] = new_topic]]

SetTopic(it, d, new_topic) ==
    IF Done(it, d).panic \/ Done(it, d).val THEN [panic |-> TRUE, doc |-> d]
    ELSE IF new_topic < 0 THEN [panic |-> TRUE, doc |-> d]
    ELSE IF new_topic >= Len(d.topic_histogram)
         THEN [panic |-> TRUE, doc |-> d]
    \* iter.Topic() panics before anything is written
    ELSE IF Topic(it, d).panic THEN [panic |-> TRUE, doc |-> d]
    ELSE LET old_topic == Topic(it, d).val
             dec == [d EXCEPT !.topic_histogram[old_topic + 1] = @ - 1]
             inc == [dec EXCEPT !.topic_histogram[new_topic + 1] = @ + 1]
         IN [panic |-> FALSE,
             doc |-> [inc EXCEPT
                        !.wordtopics[it.word_topic_index + 1] = new_topic]]

Word(it, d) ==
    IF Done(it, d).panic \/ Done(it, d).val
    THEN [panic |-> TRUE, val |-> <<>>]
    ELSE IF it.unique_word_index >= Len(d.unique_words)
         THEN [panic |-> TRUE, val |-> <<>>]
         ELSE [panic |-> FALSE, val |-> At(d.unique_words, it.unique_word_index)]

---------------------------------------------------------------------------
(* The document specification: one text is built into a Document and      *)
(* cursors are opened and driven over it.                                  *)

\* every text of at most MaxLen bytes
Texts == UNION {[1..n -> Alphabet] : n \in 0..MaxLen}

\* the topics a caller may pass to SetTopic: one below and one above range
TopicArgs == -1..MaxTopics

\* what the last call returned
Ret(op, arg, panic, e, done, topic, word) ==
    [op |-> op, arg |-> arg, panic |-> panic, err |-> e,
     done |-> done, topic |-> topic, word |-> word]

NoRet == Ret("none", 0, FALSE, "nil", FALSE, -1, <<>>)

\* the stop of a cursor that is not done: its position and its word
Stop(it, d) == [pos |-> it.word_topic_index, word |-> Word(it, d).val]

CorpusIdle ==
    /\ file = <<>> /\ rd = 0 /\ l = <<>> /\ is_prefix = FALSE
    /\ rerr = "nil" /\ corpus = <<>> /\ lerr = "nil" /\ lpc = "idle"

StepsIdle ==
    /\ docs = <<>> /\ iters = <<>> /\ wpc = <<>> /\ warg = <<>>
    /\ seen = <<>>

Init ==
    /\ text \in Texts
    /\ num_topics \in 1..MaxTopics
    /\ doc = <<>> /\ err = "nil" /\ iter = <<>>
    /\ ret = NoRet /\ walk = <<>> /\ ncalls = 0
    /\ pc = "start"
    /\ CorpusIdle
    /\ StepsIdle

CallNewDocument ==
    /\ pc = "start"
    /\ LET r == NewDocument(text, num_topics) IN
         /\ doc' = r.doc
         /\ err' = r.err
         /\ ret' = Ret("NewDocument", 0, FALSE, r.err, FALSE, -1, <<>>)
    /\ pc' = "built"
    /\ UNCHANGED <<text, num_topics, iter, walk, ncalls>>
    /\ UNCHANGED corpusvars
    /\ UNCHANGED stepvars

CallNewWordIterator ==
    /\ pc \in {"built", "walking"}
    /\ LET r == NewWordIterator(doc) IN
         /\ ret' = Ret("NewWordIterator", 0, FALSE, r.err, FALSE, -1, <<>>)
         /\ IF r.iter = <<>>
            THEN UNCHANGED <<iter, walk, ncalls, pc>>
            ELSE /\ iter' = r.iter
                 /\ walk' = IF Done(r.iter[1], doc[1]).val THEN <<>>
                            ELSE <<Stop(r.iter[1], doc[1])>>
                 /\ ncalls' = 0
                 /\ pc' = "walking"
    /\ UNCHANGED <<text, num_topics, doc, err>>
    /\ UNCHANGED corpusvars
    /\ UNCHANGED stepvars

CallDone ==
    /\ pc = "walking"
    /\ LET r == Done(iter[1], doc[1]) IN
         ret' = Ret("Done", 0, r.panic, "nil", r.val, -1, <<>>)
    /\ UNCHANGED <<text, num_topics, doc, err, iter, walk, ncalls, pc>>
    /\ UNCHANGED corpusvars
    /\ UNCHANGED stepvars

CallNext ==
    /\ pc = "walking"
    \* the position never passes the end; the guard keeps it so in any case
    /\ iter[1].word_topic_index <= Length(doc[1])
    /\ LET r == Next(iter[1], doc[1]) IN
         /\ iter' = <<r.iter>>
         /\ ret' = Ret("Next", 0, r.panic, "nil", FALSE, -1, <<>>)
         /\ ncalls' = IF r.panic THEN ncalls ELSE ncalls + 1
         /\ walk' = IF r.panic \/ Done(r.iter, doc[1]).panic
                        \/ Done(r.iter, doc[1]).val
                    THEN walk
                    ELSE Append(walk, Stop(r.iter, doc[1]))
    /\ UNCHANGED <<text, num_topics, doc, err, pc>>
    /\ UNCHANGED corpusvars
    /\ UNCHANGED stepvars

CallTopic ==
    /\ pc = "walking"
    /\ LET r == Topic(iter[1], doc[1]) IN
         ret' = Ret("Topic", 0, r.panic, "nil", FALSE, r.val, <<>>)
    /\ UNCHANGED <<text, num_topics, doc, err, iter, walk, ncalls, pc>>
    /\ UNCHANGED corpusvars
    /\ UNCHANGED stepvars

CallSetTopic(new_topic) ==
    /\ pc = "walking"
    /\ LET r == SetTopic(iter[1], doc[1], new_topic) IN
         /\ doc' = <<r.doc>>
         \* topic: the label iter.Topic() read before the relabel
         /\ ret' = Ret("SetTopic", new_topic, r.panic, "nil", FALSE,
                       IF r.panic THEN -1 ELSE Topic(iter[1], doc[1]).val,
                       <<>>)
    /\ UNCHANGED <<text, num_topics, err, iter, walk, ncalls, pc>>
    /\ UNCHANGED corpusvars
    /\ UNCHANGED stepvars

CallWord ==
    /\ pc = "walking"
    /\ LET r == Word(iter[1], doc[1]) IN
         ret' = Ret("Word", 0, r.panic, "nil", FALSE, -1, r.val)
    /\ UNCHANGED <<text, num_topics, doc, err, iter, walk, ncalls, pc>>
    /\ UNCHANGED corpusvars
    /\ UNCHANGED stepvars

Next_ ==
    \/ CallNewDocument
    \/ CallNewWordIterator
    \/ CallDone
    \/ CallNext
    \/ CallTopic
    \/ \E new_topic \in TopicArgs : CallSetTopic(new_topic)
    \/ CallWord

Spec == Init /\ [][Next_]_vars

---------------------------------------------------------------------------
(* LoadCorpus.  file is the pointer os.OpenFile returns (nil when the     *)
(* file cannot be opened), rd the number of bytes the reader has handed    *)
(* out, l, is_prefix and rerr the locals l, is_prefix and err of           *)
(* LoadCorpus, corpus and lerr its results.                                *)

\* the length a line must exceed to be parsed
MinLineLength == 15

\* n copies of s
RECURSIVE Rep(_, _)
Rep(s, n) == IF n <= 0 THEN <<>> ELSE s \o Rep(s, n - 1)

\* a line of n >= 3 bytes with two tokens: "a bbb...b"
TwoTokenLine(n) == <<97, 32>> \o Rep(<<98>>, n - 2)

\* a line longer than the reader's buffer whose chunks all have two tokens
\* or more: "ab ab ab ..."
OversizedLine == SubSeq(Rep(<<97, 98, 32>>, BufSize), 1,
                        BufSize + MinLineLength + 2)

\* the lines a corpus file is made of: a short line, lines of 15 and of 16
\* bytes, a line of 16 bytes with one token, an oversized line, an
\* oversized line with one token
LineSet == {TwoTokenLine(3), TwoTokenLine(MinLineLength),
            TwoTokenLine(MinLineLength + 1),
            Rep(<<98>>, MinLineLength + 1), OversizedLine,
            Rep(<<98>>, BufSize + 2)}

\* the bytes of a file with the given lines, each ended by '\n'
RECURSIVE JoinLines(_)
JoinLines(ls) ==
    IF ls = <<>> THEN <<>> ELSE Head(ls) \o <<10>> \o JoinLines(Tail(ls))

\* every file of at most MaxLines lines, the last newline present or not
Files ==
    LET lists == UNION {[1..n -> LineSet] : n \in 0..MaxLines}
    IN {JoinLines(ls) : ls \in lists}
       \cup {SubSeq(JoinLines(ls), 1, Len(JoinLines(ls)) - 1) :
                ls \in lists \ {<<>>}}

\* Go index of the first '\n' among the first n bytes of s, n if none
RECURSIVE IndexNewline(_, _, _)
IndexNewline(s, i, n) ==
    IF i >= n THEN n
    ELSE IF At(s, i) = 10 THEN i
    ELSE IndexNewline(s, i + 1, n)

\* bufio.Reader.ReadLine after rd bytes of the file have been handed out
ReadLine(bytes, r) ==
    LET rest == SubSeq(bytes, r + 1, Len(bytes))
        n == Min(Len(rest), BufSize)
        k == IndexNewline(rest, 0, n)
    IN IF rest = <<>>
       THEN [line |-> <<>>, is_prefix |-> FALSE, err |-> "EOF", rd |-> r]
       ELSE IF k < n
            \* a whole line: the "\n" or "\r\n" is dropped
            THEN [line |-> IF k >= 1 /\ At(rest, k - 1) = 13
                           THEN SubSeq(rest, 1, k - 1)
                           ELSE SubSeq(rest, 1, k),
                  is_prefix |-> FALSE, err |-> "nil", rd |-> r + k + 1]
            ELSE IF n = BufSize
                 \* the buffer is full: a prefix of the line; a last "\r"
                 \* is put back
                 THEN IF At(rest, n - 1) = 13
                      THEN [line |-> SubSeq(rest, 1, n - 1),
                            is_prefix |-> TRUE, err |-> "nil",
                            rd |-> r + n - 1]
                      ELSE [line |-> SubSeq(rest, 1, n),
                            is_prefix |-> TRUE, err |-> "nil", rd |-> r + n]
                 \* the last line, not ended by a newline
                 ELSE [line |-> rest, is_prefix |-> FALSE, err |-> "nil",
                       rd |-> r + n]

\* what a call of ReadLine may return: its result or a read error
ReadLineOutcomes(bytes, r) ==
    {ReadLine(bytes, r),
     [line |-> <<>>, is_prefix |-> FALSE, err |-> "read error", rd |-> r]}

DocIdle ==
    /\ text = <<>> /\ doc = <<>> /\ err = "nil" /\ iter = <<>>
    /\ ret = NoRet /\ walk = <<>> /\ ncalls = 0 /\ pc = "idle"

InitCorpus ==
    /\ file \in {<<>>} \cup {<<f>> : f \in Files}
    /\ num_topics \in 1..MaxTopics
    /\ rd = 0 /\ l = <<>> /\ is_prefix = FALSE /\ rerr = "nil"
    /\ corpus = <<>> /\ lerr = "nil" /\ lpc = "call"
    /\ DocIdle
    /\ StepsIdle

\* LoadCorpus up to the loop: the file cannot be opened
LoadCorpusOpenFails ==
    /\ lpc = "call" /\ file = <<>>
    /\ corpus' = <<>> /\ lerr' = "Cannot open file"
    /\ lpc' = "returned"
    /\ UNCHANGED <<file, rd, l, is_prefix, rerr>>
    /\ UNCHANGED docvars
    /\ UNCHANGED stepvars

\* LoadCorpus up to the loop: NewCorpus and the first ReadLine
LoadCorpusOpen ==
    /\ lpc = "call" /\ file # <<>>
    /\ corpus' = <<<<>>>>
    /\ \E r \in ReadLineOutcomes(file[1], rd) :
         /\ l' = r.line /\ is_prefix' = r.is_prefix /\ rerr' = r.err
         /\ rd' = r.rd
    /\ lpc' = "loop"
    /\ UNCHANGED <<file, lerr>>
    /\ UNCHANGED docvars
    /\ UNCHANGED stepvars

\* one pass of the loop that meets is_prefix
LoadCorpusLongLine ==
    /\ lpc = "loop" /\ rerr = "nil" /\ is_prefix
    /\ corpus' = <<>> /\ lerr' = "Encountered a long line"
    /\ lpc' = "returned"
    /\ UNCHANGED <<file, rd, l, is_prefix, rerr>>
    /\ UNCHANGED docvars
    /\ UNCHANGED stepvars

\* a pass of the loop that skips the line whose NewDocument fails and reads
\* the next one
LoadCorpusSkipsBadLine ==
    /\ lpc = "loop" /\ rerr = "nil" /\ ~is_prefix
    /\ Len(l) > MinLineLength
    /\ NewDocument(l, num_topics).err # "nil"
    /\ \E r \in ReadLineOutcomes(file[1], rd) :
         /\ l' = r.line /\ rerr' = r.err /\ rd' = r.rd
    /\ UNCHANGED <<file, is_prefix, corpus, lerr, lpc>>
    /\ UNCHANGED docvars
    /\ UNCHANGED stepvars

\* one pass of the loop whose NewDocument fails
LoadCorpusPanic ==
    /\ lpc = "loop" /\ rerr = "nil" /\ ~is_prefix
    /\ Len(l) > MinLineLength
    /\ NewDocument(l, num_topics).err # "nil"
    /\ lpc' = "panicked"
    /\ UNCHANGED <<file, rd, l, is_prefix, rerr, corpus, lerr>>
    /\ UNCHANGED docvars
    /\ UNCHANGED stepvars

\* one pass of the loop: the line is skipped or its document appended, and
\* the next line is read; the is_prefix of that read is discarded
LoadCorpusLine ==
    /\ lpc = "loop" /\ rerr = "nil" /\ ~is_prefix
    /\ IF Len(l) > MinLineLength
       THEN /\ NewDocument(l, num_topics).err = "nil"
            /\ corpus' = <<corpus[1] \o NewDocument(l, num_topics).doc>>
       ELSE corpus' = corpus
    /\ \E r \in ReadLineOutcomes(file[1], rd) :
         /\ l' = r.line /\ rerr' = r.err /\ rd' = r.rd
    /\ UNCHANGED <<file, is_prefix, lerr, lpc>>
    /\ UNCHANGED docvars
    /\ UNCHANGED stepvars

\* after the loop
LoadCorpusReturn ==
    /\ lpc = "loop" /\ rerr # "nil"
    /\ IF rerr # "EOF"
       THEN corpus' = <<>> /\ lerr' = "Error reading"
       ELSE corpus' = corpus /\ lerr' = "nil"
    /\ lpc' = "returned"
    /\ UNCHANGED <<file, rd, l, is_prefix, rerr>>
    /\ UNCHANGED docvars
    /\ UNCHANGED stepvars

NextCorpus ==
    \/ LoadCorpusOpenFails
    \/ LoadCorpusOpen
    \/ LoadCorpusLongLine
    \/ LoadCorpusPanic
    \/ LoadCorpusLine
    \/ LoadCorpusReturn

SpecCorpus == InitCorpus /\ [][NextCorpus]_vars

---------------------------------------------------------------------------
(* The statement-level specification.  Each worker owns one document and  *)
(* drives its own cursor over it; Next and SetTopic are executed one       *)
(* statement at a time, and the steps of the workers and of a reader of    *)
(* a document's histogram interleave freely: nothing in the code           *)
(* synchronizes them.  docs[w] is the document of worker w, iters[w] its   *)
(* WordIterator (doc is the index of the document it points to), wpc[w]    *)
(* the statement it executes next ("idle" between two cursor operations),  *)
(* warg[w] the new_topic of its SetTopic, seen the reader's last snapshot. *)

Workers == {1, 2}

\* the texts the documents of the workers are built from: "A A", "A b"
StepTexts == {<<65, 32, 65>>, <<65, 32, 98>>}

\* iter.word_topic_index++
NextIncrement(it) == [it EXCEPT !.word_topic_index = @ + 1]

\* the if statement of Next
NextTest(it, d) ==
    IF it.word_topic_index >= Len(d.wordtopics)
    THEN [panic |-> FALSE, iter |-> [it EXCEPT !.unique_word_index = @ + 1]]
    ELSE IF it.unique_word_index + 1 >= Len(d.wordtopics_indices)
         THEN [panic |-> TRUE, iter |-> it]
         ELSE IF it.word_topic_index >=
                     At(d.wordtopics_indices, it.unique_word_index + 1)
              THEN [panic |-> FALSE,
                    iter |-> [it EXCEPT !.unique_word_index = @ + 1]]
              ELSE [panic |-> FALSE, iter |-> it]

\* the decrement applied to the entry of the new topic
SetTopicDecrementNew(it, d, new_topic) ==
    [d EXCEPT !.topic_histogram[new_topic + 1] = @ - 1]

\* iter.doc.topic_histogram[iter.Topic()]--
SetTopicDecrement(it, d, new_topic) ==
    [d EXCEPT !.topic_histogram[Topic(it, d).val + 1] = @ - 1]

\* iter.doc.topic_histogram[new_topic]++
SetTopicIncrement(it, d, new_topic) ==
    [d EXCEPT !.topic_histogram[new_topic + 1] = @ + 1]

\* iter.doc.wordtopics[iter.word_topic_index] = new_topic
SetTopicStore(it, d, new_topic) ==
    [d EXCEPT !.wordtopics[it.word_topic_index + 1] = new_topic]

\* the cursor NewWordIterator returns for the document of worker w
OpenedOn(w) == [doc |-> w, unique_word_index |-> 0, word_topic_index |-> 0]

InitSteps ==
    /\ num_topics \in 2..MaxTopics
    /\ docs \in [Workers -> {NewDocument(t, num_topics).doc[1] : t \in StepTexts}]
    /\ iters = [w \in Workers |-> OpenedOn(w)]
    /\ wpc = [w \in Workers |-> "idle"]
    /\ warg = [w \in Workers |-> 0]
    /\ seen = <<>>
    /\ DocIdle
    /\ CorpusIdle

\* worker w opens a new cursor on its document
WorkerOpen(w) ==
    /\ wpc[w] = "idle"
    /\ NewWordIterator(<<docs[w]>>).err = "nil"
    /\ iters' = [iters EXCEPT ![w] = OpenedOn(w)]
    /\ UNCHANGED <<docs, wpc, warg, seen>>
    /\ UNCHANGED <<docvars, corpusvars>>

\* Next up to the increment; on a cursor that is done Next panics and
\* writes nothing
WorkerNextIncrement(w) ==
    /\ wpc[w] = "idle"
    /\ ~Done(iters[w], docs[iters[w].doc]).panic
    /\ ~Done(iters[w], docs[iters[w].doc]).val
    /\ iters' = [iters EXCEPT ![w] = NextIncrement(@)]
    /\ wpc' = [wpc EXCEPT ![w] = "next_test"]
    /\ UNCHANGED <<docs, warg, seen>>
    /\ UNCHANGED <<docvars, corpusvars>>

WorkerNextTest(w) ==
    /\ wpc[w] = "next_test"
    /\ iters' = [iters EXCEPT ![w] = NextTest(@, docs[@.doc]).iter]
    /\ wpc' = [wpc EXCEPT ![w] = "idle"]
    /\ UNCHANGED <<docs, warg, seen>>
    /\ UNCHANGED <<docvars, corpusvars>>

\* SetTopic up to the decrement; on a cursor that is done or with a topic
\* out of range SetTopic panics and writes nothing
WorkerSetTopicDecrement(w, new_topic) ==
    /\ wpc[w] = "idle"
    /\ ~SetTopic(iters[w], docs[iters[w].doc], new_topic).panic
    /\ docs' = [docs EXCEPT ![iters[w].doc] =
                   SetTopicDecrement(iters[w], @, new_topic)]
    /\ warg' = [warg EXCEPT ![w] = new_topic]
    /\ wpc' = [wpc EXCEPT ![w] = "set_inc"]
    /\ UNCHANGED <<iters, seen>>
    /\ UNCHANGED <<docvars, corpusvars>>

WorkerSetTopicIncrement(w) ==
    /\ wpc[w] = "set_inc"
    /\ docs' = [docs EXCEPT ![iters[w].doc] =
                   SetTopicIncrement(iters[w], @, warg[w])]
    /\ wpc' = [wpc EXCEPT ![w] = "set_store"]
    /\ UNCHANGED <<iters, warg, seen>>
    /\ UNCHANGED <<docvars, corpusvars>>

WorkerSetTopicStore(w) ==
    /\ wpc[w] = "set_store"
    /\ docs' = [docs EXCEPT ![iters[w].doc] =
                   SetTopicStore(iters[w], @, warg[w])]
    /\ warg' = [warg EXCEPT ![w] = 0]
    /\ wpc' = [wpc EXCEPT ![w] = "idle"]
    /\ UNCHANGED <<iters, seen>>
    /\ UNCHANGED <<docvars, corpusvars>>

\* a reader of document i takes its histogram and its labels
ReadHistogram(i) ==
    /\ seen' = <<[topic_histogram |-> docs[i].topic_histogram,
                  wordtopics |-> docs[i].wordtopics]>>
    /\ UNCHANGED <<docs, iters, wpc, warg>>
    /\ UNCHANGED <<docvars, corpusvars>>

NextSteps ==
    \/ \E w \in Workers : WorkerOpen(w)
    \/ \E w \in Workers : WorkerNextIncrement(w)
    \/ \E w \in Workers : WorkerNextTest(w)
    \/ \E w \in Workers : \E new_topic \in TopicArgs :
           WorkerSetTopicDecrement(w, new_topic)
    \/ \E w \in Workers : WorkerSetTopicIncrement(w)
    \/ \E w \in Workers : WorkerSetTopicStore(w)
    \/ \E i \in Workers : ReadHistogram(i)

SpecSteps == InitSteps /\ [][NextSteps]_vars

---------------------------------------------------------------------------
(* Properties of the document and of the cursor. *)

\* number of entries of s equal to v
Count(s, v) == Cardinality({i \in 1..Len(s) : s[i] = v})

RECURSIVE SumSeq(_)
SumSeq(s) == IF s = <<>> THEN 0 ELSE Head(s) + SumSeq(Tail(s))

\* number of tokens of a text: the places where a non-space byte starts a
\* run in the text stripped of its symbols
TokenCount(t) ==
    LET s == SelectSeq(t, LAMBDA c : ~IsSymbol(c))
    IN Cardinality({i \in 1..Len(s) :
                       /\ ~IsSpace(s[i])
                       /\ (i = 1 \/ IsSpace(s[i - 1]))})

\* Go index of the first occurrence of w in ws (Len(ws) if there is none)
FirstIndex(ws, w) ==
    IF \E i \in 1..Len(ws) : ws[i] = w
    THEN (CHOOSE i \in 1..Len(ws) :
             ws[i] = w /\ \A j \in 1..(i - 1) : ws[j] # w) - 1
    ELSE Len(ws)

CursorDone == Done(iter[1], doc[1]).val

\* C1: after construction and after any sequence of cursor calls,
\* topic_histogram[t] is the number of positions of wordtopics labelled t,
\* for every topic t, and the histogram sums to N = len(wordtopics).
C1_HistogramConsistency ==
    doc # <<>> =>
        LET d == doc[1] IN
        /\ \A t \in 0..(Len(d.topic_histogram) - 1) :
               At(d.topic_histogram, t) = Count(d.wordtopics, t)
        /\ SumSeq(d.topic_histogram) = Len(d.wordtopics)

\* a valid SetTopic has relabelled an occurrence away from topic 0
C1_Witness ==
    /\ pc = "walking"
    /\ ret.op = "SetTopic" /\ ~ret.panic
    /\ Count(doc[1].wordtopics, 0) < Len(doc[1].wordtopics)

\* C2: a cursor driven by Next visits the positions 0, 1, ..., N-1 once each
\* and in that order, and Done() is true exactly after the N-th Next.
C2_TotalCoverage ==
    pc = "walking" =>
        LET N == Len(doc[1].wordtopics) IN
        /\ CursorDone <=> ncalls = N
        /\ Len(walk) = Min(ncalls + 1, N)
        /\ \A i \in 1..Len(walk) : walk[i].pos = i - 1

\* C3: in a cursor state that is not done, Word() is the token at the
\* cursor's position in the sorted token list of the document.
C3_WordOwnership ==
    (pc = "walking" /\ ~CursorDone) =>
        /\ ~Word(iter[1], doc[1]).panic
        /\ iter[1].word_topic_index < Len(Words(text))
        /\ Word(iter[1], doc[1]).val =
               At(Words(text), iter[1].word_topic_index)

\* C4: wordtopics_indices has U+1 entries, is non-decreasing, starts with 0,
\* ends with N, and entry i < U is the index of the first occurrence of
\* unique_words[i] in the sorted token list.
C4_OffsetsLayout ==
    doc # <<>> =>
        LET d == doc[1]
            U == Len(d.unique_words)
            N == Len(d.wordtopics)
            offs == d.wordtopics_indices
        IN /\ Len(offs) = U + 1
           /\ \A i \in 1..(Len(offs) - 1) : offs[i] <= offs[i + 1]
           /\ At(offs, 0) = 0
           /\ At(offs, Len(offs) - 1) = N
           /\ \A i \in 0..(U - 1) :
                  i < Len(offs) =>
                      At(offs, i) = FirstIndex(Words(text), At(d.unique_words, i))

\* C5: the words reported at the stops of a walk are in non-decreasing
\* lexicographic order, and the stops that report the same word are
\* contiguous.
C5_GroupingCorrectness ==
    pc = "walking" =>
        \A i \in 1..Len(walk) : \A j \in i..Len(walk) :
            /\ ~StrLess(walk[j].word, walk[i].word)
            /\ walk[i].word = walk[j].word =>
                   \A k \in i..j : walk[k].word = walk[i].word

\* a walk over a document with a repeated word has run to Done()
C5_Witness ==
    /\ pc = "walking" /\ CursorDone
    /\ Len(walk) >= 2
    /\ Len(doc[1].unique_words) < Len(doc[1].wordtopics)

\* C6: SetTopic(t) with t < 0 or t >= K in a cursor state that is not done
\* panics and leaves the document and the cursor as they were.
C6_OutOfRangeRejected ==
    [][(/\ pc = "walking"
        /\ ~CursorDone
        /\ ret'.op = "SetTopic"
        /\ (ret'.arg < 0 \/ ret'.arg >= Len(doc[1].topic_histogram)))
       => (ret'.panic /\ doc' = doc /\ iter' = iter)]_vars

\* an out-of-range SetTopic has panicked on a relabelled document
C6_Witness ==
    /\ pc = "walking" /\ ~CursorDone
    /\ ret.op = "SetTopic" /\ ret.panic
    /\ ret.arg >= Len(doc[1].topic_histogram)
    /\ Count(doc[1].wordtopics, 0) < Len(doc[1].wordtopics)

\* C7: once Done() is true, Next, Topic, SetTopic and Word panic, no call
\* changes the cursor or the document, and Done() stays true.
C7_DoneIsTerminal ==
    [][(/\ pc = "walking"
        /\ CursorDone
        /\ ret'.op \in {"Done", "Next", "Topic", "SetTopic", "Word"})
       => (/\ iter' = iter
           /\ doc' = doc
           /\ Done(iter'[1], doc'[1]).val
           /\ ret'.op = "Done" => (ret'.done /\ ~ret'.panic)
           /\ ret'.op # "Done" => ret'.panic)]_vars

\* Next has been called on a cursor that is done
C7_Witness ==
    /\ pc = "walking" /\ CursorDone
    /\ ret.op = "Next" /\ ret.panic

\* C8: NewDocument returns an error and a nil document exactly when
\* num_topics < 2 or the text has fewer than 2 tokens, and a document and no
\* error otherwise.
C8_ConstructionRejection ==
    pc \in {"built", "walking"} =>
        /\ doc = <<>> <=> err # "nil"
        /\ err # "nil" <=> (num_topics < 2 \/ TokenCount(text) < 2)

\* a text of several bytes was rejected for having fewer than 2 tokens
C8_Witness ==
    /\ pc = "built" /\ doc = <<>>
    /\ num_topics >= 2 /\ Len(text) >= 3
    /\ err = "Document less than 2 words"

\* C11: SetTopic(t) with t the current label Topic() of a cursor that is
\* not done leaves topic_histogram and wordtopics as they were.
C11_IdempotentRelabel ==
    [][(/\ pc = "walking"
        /\ ~CursorDone
        /\ ret'.op = "SetTopic"
        /\ ret'.arg = Topic(iter[1], doc[1]).val)
       => (/\ ~ret'.panic
           /\ doc'[1].topic_histogram = doc[1].topic_histogram
           /\ doc'[1].wordtopics = doc[1].wordtopics)]_vars

\* SetTopic was called with the label the occurrence already had, a label
\* other than the initial 0
C11_Witness ==
    /\ pc = "walking" /\ ~CursorDone
    /\ ret.op = "SetTopic" /\ ~ret.panic
    /\ ret.arg = ret.topic /\ ret.arg > 0

\* C14: a document returned by NewDocument(text, K) has N labels, all 0, and
\* a histogram of K entries with topic_histogram[0] = N and the others 0.
C14_InitialLabelling ==
    (pc = "built" /\ doc # <<>>) =>
        LET d == doc[1]
            N == TokenCount(text)
        IN /\ Len(d.wordtopics) = N
           /\ \A i \in 1..Len(d.wordtopics) : d.wordtopics[i] = 0
           /\ Len(d.topic_histogram) = num_topics
           /\ At(d.topic_histogram, 0) = N
           /\ \A t \in 1..(Len(d.topic_histogram) - 1) :
                  At(d.topic_histogram, t) = 0

\* NewDocument has returned a document of three occurrences
C14_Witness ==
    /\ pc = "built" /\ doc # <<>>
    /\ ret.op = "NewDocument"
    /\ Len(doc[1].wordtopics) >= 3

\* C15: cursor calls never change unique_words, wordtopics_indices or the
\* lengths of wordtopics and topic_histogram; Next changes only the cursor;
\* a successful SetTopic(t) changes only the label at the cursor's position
\* and the histogram entries of the old and of the new topic, and does not
\* move the cursor.
C15_CursorFrame ==
    [][(/\ pc = "walking"
        /\ ret'.op \in {"Done", "Next", "Topic", "SetTopic", "Word"})
       => LET d == doc[1]
              e == doc'[1]
              p == iter[1].word_topic_index
          IN /\ e.unique_words = d.unique_words
             /\ e.wordtopics_indices = d.wordtopics_indices
             /\ Len(e.wordtopics) = Len(d.wordtopics)
             /\ Len(e.topic_histogram) = Len(d.topic_histogram)
             /\ ret'.op = "Next" => doc' = doc
             /\ (ret'.op = "SetTopic" /\ ~ret'.panic) =>
                    /\ iter' = iter
                    /\ At(e.wordtopics, p) = ret'.arg
                    /\ \A i \in 0..(Len(d.wordtopics) - 1) :
                           i # p => At(e.wordtopics, i) = At(d.wordtopics, i)
                    /\ \A t \in 0..(Len(d.topic_histogram) - 1) :
                           t \notin {At(d.wordtopics, p), ret'.arg} =>
                               At(e.topic_histogram, t) = At(d.topic_histogram, t)
       ]_vars

\* a successful SetTopic has relabelled an occurrence after the first one
C15_Witness ==
    /\ pc = "walking" /\ ~CursorDone
    /\ ret.op = "SetTopic" /\ ~ret.panic
    /\ iter[1].word_topic_index >= 1
    /\ ret.arg # ret.topic

\* the structural invariants of a Document: U >= 1, N >= 2, K >= 2,
\* unique_words ascending without duplicates, U+1 offsets from 0 to N that
\* never decrease, and a histogram equal to the label counts
StructuralInvariants(d) ==
    LET U == Len(d.unique_words)
        N == Len(d.wordtopics)
        offs == d.wordtopics_indices
    IN /\ U >= 1 /\ N >= 2 /\ Len(d.topic_histogram) >= 2
       /\ \A i \in 1..(U - 1) :
              StrLess(d.unique_words[i], d.unique_words[i + 1])
       /\ Len(offs) = U + 1
       /\ \A i \in 1..(Len(offs) - 1) : offs[i] <= offs[i + 1]
       /\ At(offs, 0) = 0
       /\ At(offs, Len(offs) - 1) = N
       /\ \A t \in 0..(Len(d.topic_histogram) - 1) :
              At(d.topic_histogram, t) = Count(d.wordtopics, t)

\* C16: NewWordIterator(d) returns an error for a nil document and for every
\* document that violates a structural invariant of a Document.
C16_OpenGuardedByInvariants ==
    (ret.op = "NewWordIterator"
         /\ (doc = <<>> \/ ~StructuralInvariants(doc[1])))
        => ret.err # "nil"

\* C18: a walk reaches Done() after at most N calls of Next and without a
\* panic: Next on a cursor that is not done succeeds and brings
\* unique_word_index closer to U, and no walk has more than N calls of Next.
C18_WalkTerminates ==
    /\ [](pc = "walking" =>
             /\ ncalls <= Len(doc[1].wordtopics)
             /\ ncalls = Len(doc[1].wordtopics) => CursorDone)
    /\ [][(pc = "walking" /\ ~CursorDone /\ ret'.op = "Next")
           => (/\ ~ret'.panic
               /\ ncalls' = ncalls + 1
               /\ iter'[1].unique_word_index > iter[1].unique_word_index
               /\ iter'[1].unique_word_index <= Len(doc[1].unique_words))
       ]_vars

\* a walk over a document with a repeated word has ended without a panic
C18_Witness ==
    /\ pc = "walking" /\ CursorDone
    /\ ret.op = "Next" /\ ~ret.panic
    /\ ncalls >= 2
    /\ Len(doc[1].unique_words) < Len(doc[1].wordtopics)

\* C19: in every cursor state of a walk Done() does not panic, and when the
\* cursor is not done its position is below N, its word index below U, and
\* Next, Topic, SetTopic and Word index no slice out of range.
C19_NoOutOfRangeAccess ==
    pc = "walking" =>
        LET it == iter[1]
            d == doc[1]
        IN /\ ~Done(it, d).panic
           /\ ~CursorDone =>
                  /\ it.word_topic_index < Len(d.wordtopics)
                  /\ it.unique_word_index < Len(d.unique_words)
                  /\ ~Next(it, d).panic
                  /\ ~Topic(it, d).panic
                  /\ ~Word(it, d).panic
                  /\ \A t \in 0..(Len(d.topic_histogram) - 1) :
                         ~SetTopic(it, d, t).panic

\* the cursor stands on the last word of a document without repeated words
C19_Witness ==
    /\ pc = "walking" /\ ~CursorDone
    /\ Len(doc[1].unique_words) = Len(doc[1].wordtopics)
    /\ iter[1].unique_word_index + 1 = Len(doc[1].wordtopics_indices)
    /\ ret.op = "Next"

---------------------------------------------------------------------------
(* Properties of LoadCorpus. *)

\* the lines of a file: the bytes between newlines
RECURSIVE SplitLines(_, _, _)
SplitLines(bytes, cur, acc) ==
    IF bytes = <<>> THEN (IF cur = <<>> THEN acc ELSE Append(acc, cur))
    ELSE IF Head(bytes) = 10
         THEN SplitLines(Tail(bytes), <<>>, Append(acc, cur))
         ELSE SplitLines(Tail(bytes), Append(cur, Head(bytes)), acc)

FileLines == IF file = <<>> THEN <<>> ELSE SplitLines(file[1], <<>>, <<>>)

\* a line does not fit the reader's buffer together with its newline
Oversized(line) == Len(line) >= BufSize

\* the documents built from the lines ls of length minlen or more
RECURSIVE DocumentsOf(_, _)
DocumentsOf(ls, minlen) ==
    IF ls = <<>> THEN <<>>
    ELSE (IF Len(Head(ls)) >= minlen
          THEN NewDocument(Head(ls), num_topics).doc ELSE <<>>)
         \o DocumentsOf(Tail(ls), minlen)

\* C9: a file with an oversized line, wherever the line is, makes LoadCorpus
\* return an error and no corpus, and no chunk of an oversized line is ever
\* made a document.
C9_OversizedLineAborts ==
    /\ (/\ lpc = "returned"
        /\ \E i \in 1..Len(FileLines) : Oversized(FileLines[i]))
       => (lerr # "nil" /\ corpus = <<>>)
    /\ (lpc \in {"loop", "returned", "panicked"} /\ corpus # <<>>) =>
           \A i \in 1..Len(corpus[1]) :
               \E j \in 1..Len(FileLines) :
                   /\ ~Oversized(FileLines[j])
                   /\ NewDocument(FileLines[j], num_topics).doc
                          = <<corpus[1][i]>>

\* C10: a successful LoadCorpus returns the documents built from the lines of
\* 15 bytes or more, one per line and in input order, and nothing else.
C10_IngestionFilterAndOrder ==
    (lpc = "returned" /\ lerr = "nil") =>
        /\ corpus # <<>>
        /\ corpus[1] = DocumentsOf(FileLines, MinLineLength)

---------------------------------------------------------------------------
(* Properties of the statement-level specification. *)

\* the histogram of d is the count of its labels
HistogramMatches(d) ==
    \A t \in 0..(Len(d.topic_histogram) - 1) :
        At(d.topic_histogram, t) = Count(d.wordtopics, t)

\* C12: SetTopic is one indivisible step: no reader of the document ever
\* takes a histogram that differs from the label counts of wordtopics.
C12_AtomicRelabel ==
    seen # <<>> => HistogramMatches(seen[1])

\* C17: with every worker on its own document, a step of one worker changes
\* neither the document nor the cursor of another worker, and the histogram
\* of a document matches its labels whenever its worker is between two
\* cursor operations.
C17_DocumentParallelism ==
    /\ [][\A v \in DOMAIN wpc : \A w \in DOMAIN wpc :
              (v # w /\ wpc'[v] # wpc[v]) =>
                  (docs'[w] = docs[w] /\ iters'[w] = iters[w]
                      /\ wpc'[w] = wpc[w])]_vars
    /\ [](\A w \in DOMAIN wpc :
              wpc[w] = "idle" => HistogramMatches(docs[w]))

\* both workers have relabelled an occurrence and one of them is in the
\* middle of a SetTopic while the other is between two operations
C17_Witness ==
    /\ wpc # <<>>
    /\ wpc[1] = "idle" /\ wpc[2] = "set_store"
    /\ Count(docs[1].wordtopics, 0) < Len(docs[1].wordtopics)
    /\ Count(docs[2].wordtopics, 0) < Len(docs[2].wordtopics)

====
